---- MODULE Spec2Model ----
(***************************************************************************)
(* Model of perf/run_buffered_ab.py: the interleaved A/B benchmark driver. *)
(*                                                                         *)
(* Spec     the driver main(): argument checks, parse_workers, the header, *)
(*          run_ab for each worker count (one run_once per step), the      *)
(*          report rows and the footer.                                    *)
(* SumSpec  the pure statistics: summarize / percentile applied to bounded *)
(*          series, and re-applied to reorderings of them.                 *)
(*                                                                         *)
(* Strings of the command line are sequences of one-character strings.     *)
(* A float is modelled by the exact rational it approximates; math.nan is  *)
(* its own value.                                                          *)
(***************************************************************************)
EXTENDS Integers, Sequences, FiniteSets, TLC

VARIABLES
    args_rounds,    \* args.rounds
    args_workers,   \* args.workers, a sequence of characters
    pc,             \* position of main()
    workers,        \* the list returned by parse_workers
    widx,           \* position of the `for w in workers` loop (1-based)
    i,              \* run_ab: the round index of `for i in range(rounds)`
    half,           \* run_ab: 0 before the round's first run_once, 1 before its second
    vals_a,         \* run_ab: vals_a, each sample with the spawn that produced it
    vals_b,         \* run_ab: vals_b
    log,            \* every child process spawned, in order
    out,            \* lines written to stdout
    err,            \* what reached stderr
    exit_code,      \* process exit status, -1 while running
    series,         \* SumSpec: the input series
    summary,        \* SumSpec: summarize(series)
    spc,            \* SumSpec: position
    reorders        \* SumSpec: reorderings applied so far

vars == <<args_rounds, args_workers, pc, workers, widx, i, half, vals_a, vals_b,
          log, out, err, exit_code, series, summary, spc, reorders>>

mainVars == <<args_rounds, args_workers, pc, workers, widx, i, half, vals_a, vals_b,
              log, out, err, exit_code>>

sumVars == <<series, summary, spc, reorders>>

(***************************************************************************)
(* Bounds.                                                                 *)
(***************************************************************************)
MaxRounds == 3
MaxLen == 3
MaxVal == 3
MaxReorders == 1

(***************************************************************************)
(* Program constants.                                                      *)
(***************************************************************************)
MinRounds == 2
P90 == 90

\* The values a child may report after `median:`; 0 is a legal match of [0-9]+.
SampleValues == {0, 100}

\* What one child process can do.
ChildOutcomes ==
    {[kind |-> "launch_error", median |-> 0],
     [kind |-> "nonzero_exit", median |-> 0],
     [kind |-> "no_match", median |-> 0]}
    \cup {[kind |-> "match", median |-> n] : n \in SampleValues}

\* The --workers strings tried.
WorkerArgs ==
    { <<>>,
      <<" ", ",", " ">>,
      <<"1">>,
      <<"0">>,
      <<"-", "1">>,
      <<"x">>,
      <<"1", ",", "x">>,
      <<"1", ",", "1">>,
      <<" ", "2", " ", ",", ",", "1">>,
      <<"+", "1", "0">> }

RoundsArgs == 0..MaxRounds

(***************************************************************************)
(* Text helpers: str.split(","), str.strip(), int().                       *)
(***************************************************************************)
RECURSIVE SplitAcc(_, _, _)
SplitAcc(s, cur, acc) ==
    IF s = <<>> THEN Append(acc, cur)
    ELSE IF Head(s) = "," THEN SplitAcc(Tail(s), <<>>, Append(acc, cur))
    ELSE SplitAcc(Tail(s), Append(cur, Head(s)), acc)

Split(s) == SplitAcc(s, <<>>, <<>>)

RECURSIVE LStrip(_)
LStrip(s) == IF s # <<>> /\ Head(s) = " " THEN LStrip(Tail(s)) ELSE s

RECURSIVE RStrip(_)
RStrip(s) ==
    IF s # <<>> /\ s[Len(s)] = " " THEN RStrip(SubSeq(s, 1, Len(s) - 1)) ELSE s

Strip(s) == RStrip(LStrip(s))

Digits == {"0", "1", "2", "3", "4", "5", "6", "7", "8", "9"}

DigitVal(c) ==
    CASE c = "0" -> 0 [] c = "1" -> 1 [] c = "2" -> 2 [] c = "3" -> 3
      [] c = "4" -> 4 [] c = "5" -> 5 [] c = "6" -> 6 [] c = "7" -> 7
      [] c = "8" -> 8 [] c = "9" -> 9

RECURSIVE DigitsVal(_, _)
DigitsVal(s, acc) ==
    IF s = <<>> THEN acc ELSE DigitsVal(Tail(s), acc * 10 + DigitVal(Head(s)))

\* int(piece) of a stripped, non-empty piece: an optional sign, then digits.
ParseInt(piece) ==
    LET signed == piece[1] \in {"+", "-"}
        body == IF signed THEN Tail(piece) ELSE piece
    IN  IF body = <<>> \/ \E k \in 1..Len(body) : body[k] \notin Digits
        THEN [ok |-> FALSE, val |-> 0]
        ELSE [ok |-> TRUE,
              val |-> IF piece[1] = "-" THEN 0 - DigitsVal(body, 0)
                      ELSE DigitsVal(body, 0)]

RECURSIVE ParsePieces(_, _)
ParsePieces(pieces, acc) ==
    IF pieces = <<>> THEN [ok |-> TRUE, list |-> acc]
    ELSE LET piece == Strip(Head(pieces))
         IN  IF piece = <<>> THEN ParsePieces(Tail(pieces), acc)
             ELSE IF ~ParseInt(piece).ok THEN [ok |-> FALSE, list |-> <<>>]
             ELSE ParsePieces(Tail(pieces), Append(acc, ParseInt(piece).val))

\* parse_workers: ok = FALSE stands for the ValueError it raises.
parse_workers(spec) ==
    LET r == ParsePieces(Split(spec), <<>>)
    IN  IF ~r.ok \/ r.list = <<>> THEN [ok |-> FALSE, list |-> <<>>] ELSE r

(***************************************************************************)
(* Statistics.                                                             *)
(***************************************************************************)
sorted(values) == SortSeq(values, LAMBDA x, y : x < y)

Max2(a, b) == IF a > b THEN a ELSE b
Min2(a, b) == IF a < b THEN a ELSE b

RECURSIVE SeqSum(_)
SeqSum(s) == IF s = <<>> THEN 0 ELSE Head(s) + SeqSum(Tail(s))

\* int(x) of the quotient a / b, b > 0: truncation toward zero.
TruncDiv(a, b) == IF a < 0 THEN 0 - ((0 - a) \div b) ELSE a \div b

\* percentile(values, p) with p = pct / 100; the index is 0-based in the code.
percentile_noMinusOne(values, pct) ==
    LET idx == Max2(0, Min2(Len(values) - 1, TruncDiv(Len(values) * pct, 100)))
    IN  sorted(values)[idx + 1]

percentile(values, pct) ==
    LET idx == Max2(0, Min2(Len(values) - 1, TruncDiv(Len(values) * pct, 100) - 1))
    IN  sorted(values)[idx + 1]

summarize(values) ==
    LET s == sorted(values)
    IN  [p50 |-> s[(Len(s) \div 2) + 1],
         p90 |-> percentile(s, P90),
         min |-> s[1],
         max |-> s[Len(s)],
         mean |-> TruncDiv(SeqSum(s), Len(s))]

NaN == [kind |-> "nan", num |-> 0, den |-> 1]

\* pct_delta: the float ((new - old) / old) * 100.0 as the rational num / den.
pct_delta_zero(new_value, old_value) ==
    IF old_value = 0 THEN [kind |-> "num", num |-> 0, den |-> 1]
    ELSE [kind |-> "num", num |-> (new_value - old_value) * 100, den |-> old_value]

pct_delta(new_value, old_value) ==
    IF old_value = 0 THEN NaN
    ELSE [kind |-> "num", num |-> (new_value - old_value) * 100, den |-> old_value]

\* run_once on a child that did `outcome`: ok = FALSE stands for the exception.
run_once(outcome) ==
    IF outcome.kind = "match" THEN [ok |-> TRUE, value |-> outcome.median]
    ELSE [ok |-> FALSE, value |-> 0]

(***************************************************************************)
(* The driver.                                                             *)
(***************************************************************************)
NoSummary == [p50 |-> 0, p90 |-> 0, min |-> 0, max |-> 0, mean |-> 0]

\* The integers of a series, without the bookkeeping of where they came from.
Values(vals) == [k \in 1..Len(vals) |-> vals[k].val]

\* main, line 93.
RoundsInvalid_off(rounds) == rounds < 1

RoundsInvalid(rounds) == rounds < MinRounds

\* run_ab, lines 61-66: the binary of the round's first (h = 0) or second (h = 1) run_once.
CurrentBinary_noAlternation(r, h) == IF h = 0 THEN "A" ELSE "B"

CurrentBinary_parityFlipped(r, h) ==
    IF r % 2 = 1 THEN (IF h = 0 THEN "A" ELSE "B")
    ELSE (IF h = 0 THEN "B" ELSE "A")

CurrentBinary_oddRoundTwiceB(r, h) ==
    IF r % 2 = 0 THEN (IF h = 0 THEN "A" ELSE "B") ELSE "B"

CurrentBinary(r, h) ==
    IF r % 2 = 0 THEN (IF h = 0 THEN "A" ELSE "B")
    ELSE (IF h = 0 THEN "B" ELSE "A")

Spawn(b, ok) ==
    [at |-> widx, cc |-> workers[widx], round |-> i, bin |-> b, ok |-> ok]

Row(w, a, b) ==
    [kind |-> "row", w |-> w,
     a50 |-> a.p50, b50 |-> b.p50, d50 |-> pct_delta(a.p50, b.p50),
     a90 |-> a.p90, b90 |-> b.p90, d90 |-> pct_delta(a.p90, b.p90)]

Init ==
    /\ args_rounds \in RoundsArgs
    /\ args_workers \in WorkerArgs
    /\ pc = "start"
    /\ workers = <<>>
    /\ widx = 0
    /\ i = 0
    /\ half = 0
    /\ vals_a = <<>>
    /\ vals_b = <<>>
    /\ log = <<>>
    /\ out = <<>>
    /\ err = "none"
    /\ exit_code = -1
    /\ series = <<>>
    /\ summary = NoSummary
    /\ spc = "idle"
    /\ reorders = 0

\* main, lines 93-95.
RejectRounds ==
    /\ pc = "start"
    /\ RoundsInvalid(args_rounds)
    /\ err' = "rounds must be >= 2"
    /\ exit_code' = 2
    /\ pc' = "exited"
    /\ UNCHANGED <<args_rounds, args_workers, workers, widx, i, half, vals_a, vals_b,
                   log, out>>
    /\ UNCHANGED sumVars

\* main, line 97, when parse_workers raises ValueError.
ParseWorkersRaises ==
    /\ pc = "start"
    /\ ~RoundsInvalid(args_rounds)
    /\ ~parse_workers(args_workers).ok
    /\ err' = "ValueError"
    /\ exit_code' = 1
    /\ pc' = "exited"
    /\ UNCHANGED <<args_rounds, args_workers, workers, widx, i, half, vals_a, vals_b,
                   log, out>>
    /\ UNCHANGED sumVars

\* main, lines 97-105: the list is parsed and the header printed.
PrintHeader ==
    /\ pc = "start"
    /\ ~RoundsInvalid(args_rounds)
    /\ parse_workers(args_workers).ok
    /\ workers' = parse_workers(args_workers).list
    /\ out' = <<[kind |-> "header", rounds |-> args_rounds, workers |-> workers'],
                [kind |-> "rule"], [kind |-> "columns"], [kind |-> "rule"]>>
    /\ widx' = 1
    /\ pc' = "loop"
    /\ UNCHANGED <<args_rounds, args_workers, i, half, vals_a, vals_b, log, err,
                   exit_code>>
    /\ UNCHANGED sumVars

\* main, lines 107-108 and run_ab, lines 57-58: the next worker count is taken up.
EnterRunAb_keepSeries ==
    /\ pc = "loop"
    /\ widx <= Len(workers)
    /\ i' = 0
    /\ half' = 0
    /\ pc' = "collect"
    /\ UNCHANGED <<args_rounds, args_workers, workers, widx, vals_a, vals_b, log, out,
                   err, exit_code>>
    /\ UNCHANGED sumVars

EnterRunAb ==
    /\ pc = "loop"
    /\ widx <= Len(workers)
    /\ vals_a' = <<>>
    /\ vals_b' = <<>>
    /\ i' = 0
    /\ half' = 0
    /\ pc' = "collect"
    /\ UNCHANGED <<args_rounds, args_workers, workers, widx, log, out, err, exit_code>>
    /\ UNCHANGED sumVars

\* run_ab, lines 60-66: one run_once that returns a sample.
RunOnceReturns ==
    /\ pc = "collect"
    /\ i < args_rounds
    /\ \E outcome \in ChildOutcomes :
          LET b == CurrentBinary(i, half)
              r == run_once(outcome)
              sample == [val |-> r.value, src |-> Len(log) + 1]
          IN  /\ r.ok
              /\ log' = Append(log, Spawn(b, TRUE))
              /\ vals_a' = IF b = "A" THEN Append(vals_a, sample) ELSE vals_a
              /\ vals_b' = IF b = "B" THEN Append(vals_b, sample) ELSE vals_b
    /\ half' = 1 - half
    /\ i' = IF half = 1 THEN i + 1 ELSE i
    /\ UNCHANGED <<args_rounds, args_workers, pc, workers, widx, out, err, exit_code>>
    /\ UNCHANGED sumVars

\* run_once raises (lines 27, 30) inside the loop of run_ab, and the exception is
\* caught nowhere.
RunOnceRaises_retried ==
    /\ pc = "collect"
    /\ i < args_rounds
    /\ \E outcome \in ChildOutcomes :
          /\ ~run_once(outcome).ok
          /\ log' = Append(log, Spawn(CurrentBinary(i, half), FALSE))
    /\ UNCHANGED <<args_rounds, args_workers, pc, workers, widx, i, half, vals_a,
                   vals_b, out, err, exit_code>>
    /\ UNCHANGED sumVars

RunOnceRaises ==
    /\ pc = "collect"
    /\ i < args_rounds
    /\ \E outcome \in ChildOutcomes :
          /\ ~run_once(outcome).ok
          /\ log' = Append(log, Spawn(CurrentBinary(i, half), FALSE))
          /\ err' = IF outcome.kind = "no_match" THEN "RuntimeError"
                    ELSE IF outcome.kind = "nonzero_exit" THEN "CalledProcessError"
                    ELSE "OSError"
    /\ exit_code' = 1
    /\ pc' = "exited"
    /\ UNCHANGED <<args_rounds, args_workers, workers, widx, i, half, vals_a, vals_b,
                   out>>
    /\ UNCHANGED sumVars

\* run_ab, line 68 and main, lines 109-117: the series are summarized, the row printed.
Report ==
    /\ pc = "collect"
    /\ i >= args_rounds
    /\ out' = Append(out, Row(workers[widx], summarize(Values(vals_a)),
                              summarize(Values(vals_b))))
    /\ widx' = widx + 1
    /\ pc' = "loop"
    /\ UNCHANGED <<args_rounds, args_workers, workers, i, half, vals_a, vals_b, log,
                   err, exit_code>>
    /\ UNCHANGED sumVars

\* main, lines 119-121.
Finish ==
    /\ pc = "loop"
    /\ widx > Len(workers)
    /\ out' = out \o <<[kind |-> "rule"], [kind |-> "footer"]>>
    /\ exit_code' = 0
    /\ pc' = "exited"
    /\ UNCHANGED <<args_rounds, args_workers, workers, widx, i, half, vals_a, vals_b,
                   log, err>>
    /\ UNCHANGED sumVars

Next ==
    \/ RejectRounds
    \/ ParseWorkersRaises
    \/ PrintHeader
    \/ EnterRunAb
    \/ RunOnceReturns
    \/ RunOnceRaises
    \/ Report
    \/ Finish

Spec == Init /\ [][Next]_vars

(***************************************************************************)
(* The statistics on their own.                                            *)
(***************************************************************************)
OneToTen == <<1, 2, 3, 4, 5, 6, 7, 8, 9, 10>>
TenToOne == <<10, 9, 8, 7, 6, 5, 4, 3, 2, 1>>

SeriesInputs ==
    UNION {[1..n -> 0..MaxVal] : n \in 1..MaxLen} \cup {<<42>>, OneToTen, TenToOne}

Swap(s, j, k) ==
    [n \in 1..Len(s) |-> IF n = j THEN s[k] ELSE IF n = k THEN s[j] ELSE s[n]]

SumInit ==
    /\ series \in SeriesInputs
    /\ summary = NoSummary
    /\ spc = "input"
    /\ reorders = 0
    /\ args_rounds = 0
    /\ args_workers = <<>>
    /\ pc = "idle"
    /\ workers = <<>>
    /\ widx = 0
    /\ i = 0
    /\ half = 0
    /\ vals_a = <<>>
    /\ vals_b = <<>>
    /\ log = <<>>
    /\ out = <<>>
    /\ err = "none"
    /\ exit_code = -1

Summarize ==
    /\ spc = "input"
    /\ summary' = summarize(series)
    /\ spc' = "summarized"
    /\ UNCHANGED <<series, reorders>>
    /\ UNCHANGED mainVars

\* The same samples in another order, summarized again.
Reorder ==
    /\ spc = "summarized"
    /\ reorders < MaxReorders
    /\ \E j, k \in 1..Len(series) :
          /\ j < k
          /\ series' = Swap(series, j, k)
    /\ summary' = summarize(series')
    /\ reorders' = reorders + 1
    /\ UNCHANGED spc
    /\ UNCHANGED mainVars

SumNext == Summarize \/ Reorder

SumSpec == SumInit /\ [][SumNext]_vars

(***************************************************************************)
(* Vocabulary of the properties.                                           *)
(***************************************************************************)
\* The report rows printed so far, in order.
Rows == SelectSeq(out, LAMBDA l : l.kind = "row")

\* The spawns made for the worker count at matrix position k, in order.
SpawnsAt(k) == SelectSeq(log, LAMBDA e : e.at = k)

SpawnsOf(k, b) == SelectSeq(log, LAMBDA e : e.at = k /\ e.bin = b)

ABBA == <<"A", "B", "B", "A">>

Other(b) == IF b = "A" THEN "B" ELSE "A"

NoFailure == \A k \in 1..Len(log) : log[k].ok

\* The --workers string holds nothing but blanks and commas.
AllBlank(s) == \A k \in 1..Len(s) : s[k] \in {" ", ","}

\* x is the element at 0-based index k of s put in ascending order.
IsOrderStat(s, x, k) ==
    /\ \E j \in 1..Len(s) : s[j] = x
    /\ Cardinality({j \in 1..Len(s) : s[j] < x}) <= k
    /\ k < Cardinality({j \in 1..Len(s) : s[j] <= x})

Clamp(v, lo, hi) == IF v < lo THEN lo ELSE IF v > hi THEN hi ELSE v

\* d is what the delta of new against old has to be.
DeltaOk(d, new, old) ==
    IF old = 0 THEN d.kind = "nan"
    ELSE d.kind = "num" /\ d.num = (new - old) * 100 /\ d.den = old

\* Rounds of matrix position k whose first spawn ran binary b.
FirstCount(k, b) ==
    Cardinality({r \in 0..(args_rounds - 1) :
                    /\ 2 * r + 1 <= Len(SpawnsAt(k))
                    /\ SpawnsAt(k)[2 * r + 1].bin = b})

\* Every sample of the series vals came from a successful spawn of binary b made
\* for matrix position k with CC_WORKERS = workers[k], each spawn used once.
SeriesFrom(vals, k, b) ==
    /\ \A n \in 1..Len(vals) :
          /\ vals[n].src \in 1..Len(log)
          /\ log[vals[n].src].at = k
          /\ log[vals[n].src].cc = workers[k]
          /\ log[vals[n].src].bin = b
          /\ log[vals[n].src].ok
    /\ \A m, n \in 1..Len(vals) : m # n => vals[m].src # vals[n].src

(***************************************************************************)
(* Properties.                                                             *)
(***************************************************************************)

\* C1: for every non-empty series, summarize returns min <= p50 <= p90 <= max.
\* (Stated as claimed; summarize([0, 1]) gives p50 = 1 and p90 = 0.)
CE_C1_Ordered ==
    spc = "summarized" =>
        /\ summary.min <= summary.p50
        /\ summary.p50 <= summary.p90
        /\ summary.p90 <= summary.max

\* C2: for one worker count the spawns follow A,B,B,A,A,B,B,A,...: round i runs A
\* first when i is even and B first when i is odd, then the other binary.
Inv_C2_Alternation ==
    \A k \in 1..Len(workers) :
        LET s == SpawnsAt(k)
        IN  /\ \A j \in 1..Len(s) : s[j].bin = ABBA[((j - 1) % 4) + 1]
            /\ \A r \in 0..(args_rounds - 1) :
                  /\ 2 * r + 1 <= Len(s) =>
                        /\ s[2 * r + 1].round = r
                        /\ s[2 * r + 1].bin = (IF r % 2 = 0 THEN "A" ELSE "B")
                  /\ 2 * r + 2 <= Len(s) =>
                        /\ s[2 * r + 2].round = r
                        /\ s[2 * r + 2].bin = Other(s[2 * r + 1].bin)

Witness_C2 ==
    /\ pc = "collect"
    /\ args_rounds = 3
    /\ Len(SpawnsAt(widx)) = 6
    /\ [n \in 1..6 |-> SpawnsAt(widx)[n].bin] = <<"A", "B", "B", "A", "A", "B">>

\* C3: with collectors that never fail, at every round boundary both series hold
\* as many samples as rounds are completed, mid-round the binary that ran first is
\* one ahead, and both hold exactly R samples when they are summarized.
Inv_C3_Lockstep ==
    /\ (pc = "collect" /\ NoFailure) =>
          /\ half = 0 => Len(vals_a) = i /\ Len(vals_b) = i
          /\ half = 1 =>
                /\ Len(vals_a) = (IF i % 2 = 0 THEN i + 1 ELSE i)
                /\ Len(vals_b) = (IF i % 2 = 0 THEN i ELSE i + 1)
          /\ i >= args_rounds =>
                /\ half = 0
                /\ Len(vals_a) = args_rounds
                /\ Len(vals_b) = args_rounds
    /\ (pc = "loop" /\ Len(Rows) >= 1) =>
          /\ Len(vals_a) = args_rounds
          /\ Len(vals_b) = args_rounds
    /\ pc \in {"loop", "collect"} => args_rounds >= 2

Witness_C3 ==
    /\ pc = "collect"
    /\ NoFailure
    /\ args_rounds = 3
    /\ i = args_rounds
    /\ Len(vals_a) = 3
    /\ Len(vals_b) = 3

\* C4: with --rounds < 2 the run exits with status 2, and with a --workers list
\* that is empty after trimming it ends with an error; in both cases, and whenever
\* the run ends on a configuration error, no child is spawned and no line of the
\* report is written.
Inv_C4_ConfigFirst ==
    /\ args_rounds < 2 =>
          /\ log = <<>>
          /\ out = <<>>
          /\ pc \in {"start", "exited"}
          /\ pc = "exited" => exit_code = 2 /\ err = "rounds must be >= 2"
    /\ (args_rounds >= 2 /\ AllBlank(args_workers)) =>
          /\ log = <<>>
          /\ out = <<>>
          /\ pc \in {"start", "exited"}
          /\ pc = "exited" => exit_code = 1 /\ err = "ValueError"
    /\ err \in {"rounds must be >= 2", "ValueError"} =>
          /\ log = <<>>
          /\ out = <<>>
          /\ exit_code # 0

Witness_C4 ==
    /\ pc = "exited"
    /\ args_rounds = 1
    /\ exit_code = 2
    /\ log = <<>>
    /\ out = <<>>

\* C5: a failed run_once appends no sample, is the last child ever spawned, leaves
\* the worker count being collected and every later one without a row, ends the
\* run with a non-zero status; and no (matrix position, round, binary) slot is
\* spawned twice.
Inv_C5_FailureIsFatal ==
    /\ \A k \in 1..Len(log) :
          ~log[k].ok =>
              /\ k = Len(log)
              /\ pc = "exited"
              /\ exit_code \notin {-1, 0}
              /\ Len(Rows) = log[k].at - 1
              /\ \A n \in 1..Len(out) : out[n].kind # "footer"
              /\ \A n \in 1..Len(vals_a) : vals_a[n].src # k
              /\ \A n \in 1..Len(vals_b) : vals_b[n].src # k
              /\ Len(vals_a) + Len(vals_b) = Len(SpawnsAt(log[k].at)) - 1
    /\ \A j, k \in 1..Len(log) :
          j # k => <<log[j].at, log[j].round, log[j].bin>>
                       # <<log[k].at, log[k].round, log[k].bin>>

Witness_C5 ==
    /\ Len(log) >= 1
    /\ ~log[Len(log)].ok
    /\ log[Len(log)].at = 2
    /\ log[Len(log)].round = 1
    /\ Len(Rows) = 1
    /\ exit_code = 1

\* C6: a delta against a zero baseline is the NaN sentinel, any other delta is
\* ((new - old) / old) * 100; every worker count whose collection completed has
\* its row whatever the baseline is, and a run without a failed child and with a
\* valid configuration exits 0 with one row per worker count.
Inv_C6_ZeroBaseline ==
    /\ \A k \in 1..Len(Rows) :
          /\ DeltaOk(Rows[k].d50, Rows[k].a50, Rows[k].b50)
          /\ DeltaOk(Rows[k].d90, Rows[k].a90, Rows[k].b90)
    /\ pc \in {"loop", "collect"} => Len(Rows) = widx - 1
    /\ (pc = "exited" /\ NoFailure /\ args_rounds >= 2 /\ workers # <<>>) =>
          /\ exit_code = 0
          /\ Len(Rows) = Len(workers)

Witness_C6 ==
    /\ pc = "exited"
    /\ exit_code = 0
    /\ Len(Rows) = 2
    /\ Rows[1].b50 = 0
    /\ Rows[1].d50 = NaN
    /\ Rows[2].b50 # 0
    /\ Rows[2].d50.kind = "num"

\* C7: summarize returns the elements at sorted indexes floor(n/2) and
\* clamp(floor(n*0.90)-1, 0, n-1), the smallest and the largest element and the
\* truncated mean, whatever the order of the series; [42] gives 42 five times and
\* the numbers 1..10 give p50=6, p90=9, min=1, max=10, mean=5.
Inv_C7_Summary ==
    spc = "summarized" =>
        LET n == Len(series)
        IN  /\ IsOrderStat(series, summary.p50, n \div 2)
            /\ IsOrderStat(series, summary.p90, Clamp(((n * 9) \div 10) - 1, 0, n - 1))
            /\ IsOrderStat(series, summary.min, 0)
            /\ IsOrderStat(series, summary.max, n - 1)
            /\ summary.mean * n <= SeqSum(series)
            /\ SeqSum(series) < (summary.mean + 1) * n
            /\ series = <<42>> =>
                  summary = [p50 |-> 42, p90 |-> 42, min |-> 42, max |-> 42, mean |-> 42]
            /\ (n = 10 /\ {series[j] : j \in 1..n} = 1..10) =>
                  summary = [p50 |-> 6, p90 |-> 9, min |-> 1, max |-> 10, mean |-> 5]

Witness_C7 ==
    /\ spc = "summarized"
    /\ reorders = 1
    /\ Len(series) = 10
    /\ series # OneToTen
    /\ series # TenToOne
    /\ summary.p90 = 9

\* C8: the parsed worker matrix holds distinct positive integers, so no child runs
\* with CC_WORKERS <= 0 and no worker count is reported twice.
\* (Stated as claimed; --workers "0", "-1" and "1,1" are accepted.)
CE_C8_DistinctPositive ==
    /\ \A k \in 1..Len(workers) : workers[k] > 0
    /\ \A j, k \in 1..Len(workers) : j # k => workers[j] # workers[k]
    /\ \A k \in 1..Len(log) : log[k].cc > 0
    /\ \A j, k \in 1..Len(Rows) : j # k => Rows[j].w # Rows[k].w

\* C9: the matrix positions are collected one after another in order; every spawn
\* carries the CC_WORKERS of its position; a position's row is printed after its
\* 2R spawns (R of A, R of B) and before the next position's first spawn; rows
\* are in matrix order; a row is computed from the samples of its own position
\* only; a successful run makes 2*R*|W| spawns.
Inv_C9_PerWorker ==
    /\ \A j, k \in 1..Len(log) : j < k => log[j].at <= log[k].at
    /\ \A k \in 1..Len(log) :
          /\ log[k].at \in 1..Len(workers)
          /\ log[k].cc = workers[log[k].at]
          /\ log[k].at <= Len(Rows) + 1
    /\ Len(Rows) <= Len(workers)
    /\ \A k \in 1..Len(Rows) :
          /\ Rows[k].w = workers[k]
          /\ Len(SpawnsAt(k)) = 2 * args_rounds
          /\ Len(SpawnsOf(k, "A")) = args_rounds
          /\ Len(SpawnsOf(k, "B")) = args_rounds
    /\ (Len(Rows) >= 1 /\ (pc = "loop" \/ (pc = "exited" /\ exit_code = 0))) =>
          LET k == Len(Rows)
          IN  /\ SeriesFrom(vals_a, k, "A")
              /\ SeriesFrom(vals_b, k, "B")
              /\ Len(vals_a) = args_rounds
              /\ Len(vals_b) = args_rounds
              /\ Rows[k] = Row(workers[k], summarize(Values(vals_a)),
                               summarize(Values(vals_b)))
    /\ pc = "collect" =>
          /\ SeriesFrom(vals_a, widx, "A")
          /\ SeriesFrom(vals_b, widx, "B")
    /\ (pc = "exited" /\ exit_code = 0) =>
          /\ Len(log) = 2 * args_rounds * Len(workers)
          /\ Len(Rows) = Len(workers)

Witness_C9 ==
    /\ pc = "exited"
    /\ exit_code = 0
    /\ args_rounds = 3
    /\ Len(workers) = 2
    /\ workers[1] # workers[2]
    /\ Len(log) = 12
    /\ Rows[1].a50 # Rows[2].a50

\* C10 as claimed: over the R rounds of one worker count, A runs first in as many
\* rounds as B does, for even and for odd R.
CE_C10_EqualFirst ==
    \A k \in 1..Len(Rows) : FirstCount(k, "A") = FirstCount(k, "B")

\* C10 as amended: A runs first in as many rounds as B when R is even, and in
\* exactly one round more than B when R is odd.
Inv_C10_FirstMover ==
    \A k \in 1..Len(Rows) :
        /\ FirstCount(k, "A") + FirstCount(k, "B") = args_rounds
        /\ FirstCount(k, "A") =
              (IF args_rounds % 2 = 0 THEN FirstCount(k, "B") ELSE FirstCount(k, "B") + 1)

Witness_C10 ==
    /\ Len(Rows) >= 1
    /\ args_rounds = 3
    /\ FirstCount(1, "A") = 2
    /\ FirstCount(1, "B") = 1

====
